---- MODULE Spec2Model ----
(***************************************************************************)
(* Model of the dolfinx_contact core: src/cpp/utils.cpp and                *)
(* src/cpp/coefficients.cpp.  Arrays are functions with 0-based domains,   *)
(* as in the C++ source.  Floating point values are modelled by integers   *)
(* (exact arithmetic); the sign bit of a zero coordinate is kept apart.    *)
(***************************************************************************)
EXTENDS Integers, Sequences, FiniteSets, TLC

VARIABLES
  cells, perm, sort_ret,  \* sort_cells: its input, its in/out argument, its result
  x_g,                    \* mesh->geometry().x(), three components per node
  x_g_negzero,            \* the positions of x_g that hold -0.0 (x_g is 0 there)
  cell_permutations,      \* the topology's cached cell permutation info
  connectivity,           \* TRUE once facet-cell connectivity has been created
  is_affine,              \* mesh->geometry().cmap().is_affine()
  V,                      \* the element of the function space
  u_data,                 \* the dof values of the field, u.x()->array()
  ndebug,                 \* TRUE when the build compiles assert() away (NDEBUG)
  call                    \* the last call made and what it produced

sortVars == <<cells, perm, sort_ret>>
meshVars == <<x_g, x_g_negzero, cell_permutations, connectivity>>
configVars == <<is_affine, V, u_data, ndebug>>
vars == <<cells, perm, sort_ret, x_g, x_g_negzero, cell_permutations, connectivity,
          is_affine, V, u_data, ndebug, call>>

\* ------------------------------------------------------------------------
\* Bounds of the model
MaxCells == 5       \* longest input array of sort_cells
MaxCellId == 5      \* largest entity index in an input array
MaxPoints == 2      \* most points handed to the basis evaluators
MaxEntities == 2    \* most active entities handed to the packing functions
MaxQDegree == 1     \* largest quadrature degree asked for
MaxFacetPairs == 3  \* most (cell, local facet) pairs handed to pack_circumradius
MaxCoord == 2       \* largest coordinate update_geometry moves a node to

\* ------------------------------------------------------------------------
\* Helpers on 0-based arrays
Len0(a) == Cardinality(DOMAIN a)

Array(n, S) == [0..(n - 1) -> S]

Arrays(maxLen, S) == UNION {Array(n, S) : n \in 0..maxLen}

\* Array(<<a, b, c>>) as a 0-based array.
Arr(seq) == [i \in 0..(Len(seq) - 1) |-> seq[i + 1]]

\* A rows x cols matrix of zeros, M[i][j].
ZeroMat(rows, cols) == [i \in 0..(rows - 1) |-> [j \in 0..(cols - 1) |-> 0]]

RECURSIVE SumTo(_, _)
\* f[0] + ... + f[n-1]
SumTo(f, n) == IF n = 0 THEN 0 ELSE SumTo(f, n - 1) + f[n - 1]

Abs(v) == IF v < 0 THEN -v ELSE v

\* ------------------------------------------------------------------------
\* The mesh: two straight-sided triangles covering the unit square.
\*   nodes 0:(0,0) 1:(1,0) 2:(0,1) 3:(1,1); cells 0:(0,1,2) 1:(1,3,2);
\*   facets 0:(1,2) 1:(0,2) 2:(0,1) 3:(3,2) 4:(1,3); facet 0 is interior.

\* mesh->topology().dim() and mesh->geometry().dim()
tdim == 2
gdim == 2

\* mesh->geometry().dofmap(): cell -> geometry nodes
x_dofmap == Arr(<<Arr(<<0, 1, 2>>), Arr(<<1, 3, 2>>)>>)

num_cells_mesh == Len0(x_dofmap)
num_dofs_g == Len0(x_dofmap[0])
MeshCells == DOMAIN x_dofmap
MeshNodes == UNION {{x_dofmap[c][i] : i \in DOMAIN x_dofmap[c]} : c \in MeshCells}

\* mesh->geometry().x() of the undeformed mesh: three components per node
x_g0 == Arr(<<0, 0, 0,  1, 0, 0,  0, 1, 0,  1, 1, 0>>)

\* topology().connectivity(tdim, tdim - 1) and connectivity(tdim - 1, tdim)
c_to_f == Arr(<<Arr(<<0, 1, 2>>), Arr(<<3, 0, 4>>)>>)
f_to_c == Arr(<<Arr(<<0, 1>>), Arr(<<0>>), Arr(<<0>>), Arr(<<1>>), Arr(<<1>>)>>)
MeshFacets == DOMAIN f_to_c

\* Topology::get_cell_permutation_info() once create_entity_permutations()
\* has run: one word of orientation bits per cell.
cell_permutation_info == Arr(<<0, 1>>)

\* Get cell geometry (coordinate dofs): coordinate_dofs(k, j) = x_g[3 * x_dofs[k] + j]
cell_coordinate_dofs(xg, cell) ==
  [k \in 0..(num_dofs_g - 1) |->
     [j \in 0..(gdim - 1) |-> xg[3 * x_dofmap[cell][k] + j]]]

\* cmap.tabulate(1, X): the first derivatives of the coordinate basis,
\* dphi[j][k] = d phi_k / d X_j.  The geometry is straight-sided, so the
\* gradients do not depend on the point (also when the coordinate element
\* reports itself as non-affine, e.g. a higher-degree element with straight
\* edges).
cmap_dphi == Arr(<<Arr(<<-1, 1, 0>>), Arr(<<-1, 0, 1>>)>>)

\* CoordinateElement::compute_jacobian(dphi, coordinate_dofs, J) for a dphi
\* holding the gradients of the first n coordinate basis functions:
\* J += coordinate_dofs^T * dphi^T
compute_jacobian_n(dphi, coordinate_dofs, J, n) ==
  [i \in 0..(gdim - 1) |-> [j \in 0..(tdim - 1) |->
     J[i][j] + SumTo([k \in 0..(n - 1) |->
                        coordinate_dofs[k][i] * dphi[j][k]], n)]]

\* compute_jacobian with the gradients of all coordinate basis functions
compute_jacobian(dphi, coordinate_dofs, J) ==
  compute_jacobian_n(dphi, coordinate_dofs, J, num_dofs_g)

\* CoordinateElement::compute_jacobian_determinant(J), square 2x2 case
compute_jacobian_determinant(J) == J[0][0] * J[1][1] - J[0][1] * J[1][0]

\* CoordinateElement::compute_jacobian_inverse(J, K), square 2x2 case.
\* Exact for the cells of the model, whose determinant is 1 or -1; a
\* degenerate cell (determinant 0) is not trapped and yields no finite
\* inverse (modelled as zeros).
compute_jacobian_inverse(J) ==
  LET d == compute_jacobian_determinant(J)
  IN IF d = 0 THEN ZeroMat(tdim, gdim)
     ELSE Arr(<<Arr(<<J[1][1] \div d, (-J[0][1]) \div d>>),
                Arr(<<(-J[1][0]) \div d, J[0][0] \div d>>)>>)

\* CoordinateElement::pull_back_affine(X, K, x0, x): X = K (x - x0) for
\* one point x; x0 is the first row of the cell geometry.
pull_back_affine_point(K, coordinate_dofs, xp) ==
  [i \in 0..(tdim - 1) |->
     SumTo([j \in 0..(gdim - 1) |->
              K[i][j] * (xp[j] - coordinate_dofs[0][j])], gdim)]

\* ------------------------------------------------------------------------
\* Finite elements (dolfinx::fem::FiniteElement): degree-1 Lagrange, scalar
\* and blocked, and degree-1 Nedelec (first kind), plain and blocked.  The
\* sizes are those the element reports, block size included.
LagrangeElement(bs) ==
  [family |-> "Lagrange", block_size |-> bs, space_dimension |-> 3 * bs,
   reference_value_size |-> bs, value_size |-> bs,
   needs_dof_transformations |-> FALSE]

NedelecElement(bs) ==
  [family |-> "N1curl", block_size |-> bs, space_dimension |-> 3 * bs,
   reference_value_size |-> 2 * bs, value_size |-> 2 * bs,
   needs_dof_transformations |-> TRUE]

\* A mixed element (two different sub elements): only its sizes are used.
MixedElement ==
  [family |-> "Mixed", block_size |-> 1, space_dimension |-> 6,
   reference_value_size |-> 2, value_size |-> 2,
   needs_dof_transformations |-> FALSE]

\* element->num_sub_elements()
num_sub_elements(element) ==
  IF element.family = "Mixed" THEN 2
  ELSE IF element.block_size > 1 THEN element.block_size ELSE 0

BlockSizes == {1, 2}

Elements == {LagrangeElement(b) : b \in BlockSizes}
              \cup {NedelecElement(b) : b \in BlockSizes}

\* The state of the sort_cells variables in the specifications of the other
\* operations, and of the mesh variables in the specification of sort_cells.
SortUnused == cells = << >> /\ perm = << >> /\ sort_ret = [status |-> "unused"]

\* No call has been made yet.
NoCall == [op |-> "none", status |-> "none"]

\* The caller is done with the result of its last call and goes on.
CallerContinues ==
  /\ call # NoCall
  /\ call' = NoCall
  /\ UNCHANGED <<sortVars, meshVars, configVars>>

\* A create_entity_permutations that drops a cache it finds.
create_entity_permutations_drops(cached) ==
  IF cached = << >> THEN cell_permutation_info ELSE << >>

\* mesh->topology_mutable().create_entity_permutations(): computes the
\* permutation info unless it is cached already.
create_entity_permutations(cached) ==
  IF cached = << >> THEN cell_permutation_info ELSE cached

\* dofmap->cell_dofs(cell): Lagrange dofs sit on the vertices (the layout of
\* the coordinate element), Nedelec dofs on the facets.
cell_dofs(element, cell) ==
  IF element.family = "Lagrange" THEN x_dofmap[cell] ELSE c_to_f[cell]

\* Number of (blocked) dofs of the function space.
num_dofs_global(element) ==
  IF element.family = "Lagrange" THEN Cardinality(MeshNodes)
  ELSE Cardinality(MeshFacets)

\* element->tabulate(data, X, nd) at one reference point X: data[j][i][r]
\* for derivative index j <= nd * tdim, basis function i and reference value
\* component r (sizes without the block size).
tabulate_point(element, X, nd) ==
  LET vals ==
        IF element.family = "Lagrange"
        THEN Arr(<<Arr(<<Arr(<<1 - X[0] - X[1]>>), Arr(<<X[0]>>), Arr(<<X[1]>>)>>),
                   Arr(<<Arr(<<-1>>), Arr(<<1>>), Arr(<<0>>)>>),
                   Arr(<<Arr(<<-1>>), Arr(<<0>>), Arr(<<1>>)>>)>>)
        ELSE Arr(<<Arr(<<Arr(<<-X[1], X[0]>>), Arr(<<X[1], 1 - X[0]>>),
                         Arr(<<1 - X[1], X[0]>>)>>),
                   Arr(<<Arr(<<0, 1>>), Arr(<<0, -1>>), Arr(<<0, 1>>)>>),
                   Arr(<<Arr(<<-1, 0>>), Arr(<<1, 0>>), Arr(<<-1, 0>>)>>)>>)
  IN [j \in 0..(nd * tdim) |-> vals[j]]

\* Bit d of the orientation word w.
Bit(w, d) == (w \div (2 ^ d)) % 2

\* The dof transformation of the element applied to the values U[i][r] of
\* one point, for a cell with orientation word cell_perm: a Nedelec basis
\* function changes sign when its edge is reflected; Lagrange needs none.
\* The values are handed to the push-forward as they were tabulated.
apply_dof_transformation_skipped(element, U, cell_perm) == U

apply_dof_transformation(element, U, cell_perm) ==
  IF element.family = "Lagrange" THEN U
  ELSE [i \in DOMAIN U |->
          [r \in DOMAIN U[i] |->
             IF Bit(cell_perm, i) = 1 THEN -U[i][r] ELSE U[i][r]]]

\* element->map_fn(): the push-forward of the values U[i][r] of one point,
\* identity for Lagrange, covariant Piola (u = K^T U) for Nedelec.
push_forward_fn(element, U, J, detJ, K) ==
  IF element.family = "Lagrange" THEN U
  ELSE [i \in DOMAIN U |->
          [r \in 0..(gdim - 1) |->
             SumTo([k \in 0..(tdim - 1) |-> K[k][r] * U[i][k]], tdim)]]

\* ------------------------------------------------------------------------
\* pull_back (utils.cpp:12-81)

\* A copy loop that never runs (for p = 1; p < 1).
affine_entry_first_only(p, num_points) == p = 0

\* The entries the affine branch writes: entry 0 (lines 50-53) and the
\* copies of it for p = 1 .. num_points - 1 (lines 54-61).
affine_entry(p, num_points) == p = 0 \/ p < num_points

\* J, K, detJ and X after pull_back.  J, K, detJ are caller buffers with at
\* least as many entries as x has points.
pull_back(J, K, detJ, x, coordinate_dofs, affine) ==
  LET num_points == Len0(x)
      Jfill == [p \in DOMAIN J |-> ZeroMat(gdim, tdim)]
      J0 == compute_jacobian(cmap_dphi, coordinate_dofs, ZeroMat(gdim, tdim))
      K0 == compute_jacobian_inverse(J0)
      d0 == compute_jacobian_determinant(J0)
      X == [p \in 0..(num_points - 1) |->
              pull_back_affine_point(K0, coordinate_dofs, x[p])]
  IN IF affine
     THEN \* computed once at entry 0, then copied to the entries 1..num_points-1
          [J |-> [p \in DOMAIN J |-> IF affine_entry(p, num_points) THEN J0 ELSE Jfill[p]],
           K |-> [p \in DOMAIN K |-> IF affine_entry(p, num_points) THEN K0 ELSE K[p]],
           detJ |-> [p \in DOMAIN detJ |-> IF affine_entry(p, num_points) THEN d0 ELSE detJ[p]],
           X |-> X,
           oob |-> 0 \notin DOMAIN J]
     ELSE \* cmap.pull_back_nonaffine, then J, K, detJ at every point
          [J |-> [p \in DOMAIN J |-> IF p < num_points THEN J0 ELSE Jfill[p]],
           K |-> [p \in DOMAIN K |-> IF p < num_points THEN K0 ELSE K[p]],
           detJ |-> [p \in DOMAIN detJ |-> IF p < num_points THEN d0 ELSE detJ[p]],
           X |-> X,
           oob |-> FALSE]

\* ------------------------------------------------------------------------
\* pull_back_2 (utils.cpp:84-160)

\* Number of second derivatives cmap.tabulate(2, X) adds (xx, xy, yy).
num_second_derivatives == 3

\* An H that is left as the caller passed it.
fill_zero_skipped(H) == H

\* H.fill(0)
fill_zero(H) ==
  [p \in DOMAIN H |-> [i \in DOMAIN H[p] |-> [j \in DOMAIN H[p][i] |-> 0]]]

\* J, K, H and X after pull_back_2, and the coordinate-element routines it
\* ran.  The geometry is straight-sided, so the second derivatives of the
\* map, which the non-affine branch accumulates into the zeroed H, vanish.
pull_back_2(J, K, H, x, coordinate_dofs, affine) ==
  LET num_points == Len0(x)
      Jfill == [p \in DOMAIN J |-> ZeroMat(gdim, tdim)]
      J0 == compute_jacobian(cmap_dphi, coordinate_dofs, ZeroMat(gdim, tdim))
      K0 == compute_jacobian_inverse(J0)
      X == [p \in 0..(num_points - 1) |->
              pull_back_affine_point(K0, coordinate_dofs, x[p])]
  IN IF affine
     THEN [J |-> [p \in DOMAIN J |-> IF affine_entry(p, num_points) THEN J0 ELSE Jfill[p]],
           K |-> [p \in DOMAIN K |-> IF affine_entry(p, num_points) THEN K0 ELSE K[p]],
           H |-> fill_zero(H),
           X |-> X,
           ran |-> {"tabulate(1)", "pull_back_affine"},
           oob |-> 0 \notin DOMAIN J]
     ELSE [J |-> [p \in DOMAIN J |-> IF p < num_points THEN J0 ELSE Jfill[p]],
           K |-> [p \in DOMAIN K |-> IF p < num_points THEN K0 ELSE K[p]],
           H |-> fill_zero(H),
           X |-> X,
           ran |-> {"tabulate(1)", "pull_back_nonaffine", "tabulate(2)"},
           oob |-> FALSE]

\* ------------------------------------------------------------------------
\* get_basis_functions (utils.cpp:162-263)

\* xt::zeros<double>(shape) for a rank-4 shape
Zeros4(shape) ==
  [k \in 0..(shape[1] - 1) |-> [p \in 0..(shape[2] - 1) |->
     [i \in 0..(shape[3] - 1) |-> [j \in 0..(shape[4] - 1) |-> 0]]]]

\* The shape of basis_array (lines 192-194).
basis_array_shape(element, num_points, num_derivatives) ==
  LET block_size == element.block_size
      value_size == element.value_size \div block_size
      space_dimension == element.space_dimension \div block_size
  IN <<num_derivatives * tdim + 1, num_points, space_dimension * block_size,
       value_size * block_size>>

\* basis_values[j][q] = push_forward(transform(tabulated_data[j][q])) for
\* every point q and derivative index j (lines 225-244).
physical_basis_values(element, pb, cell_perm, num_points, num_derivatives) ==
  [j \in 0..(num_derivatives * tdim) |-> [q \in 0..(num_points - 1) |->
     LET point_basis_values == tabulate_point(element, pb.X[q], num_derivatives)[j]
         U == apply_dof_transformation(element, point_basis_values, cell_perm)
     IN push_forward_fn(element, U, pb.J[q], pb.detJ[q], pb.K[q])]]

\* Every block slot of a row receives the value of its basis function.
expand_blocks_dense(basis_values, shape, block_size) ==
  [k \in 0..(shape[1] - 1) |-> [p \in 0..(shape[2] - 1) |->
     [a \in 0..(shape[3] - 1) |-> [b \in 0..(shape[4] - 1) |->
        basis_values[k][p][a \div block_size][b \div block_size]]]]]

\* "Expand basis values for each dof" (lines 246-261): entry (k, p, a, b) is
\* written by the one triple (block, i, j) with a = i * bs + block and
\* b = j * bs + block, and keeps its zero otherwise.
expand_blocks(basis_values, shape, block_size) ==
  [k \in 0..(shape[1] - 1) |-> [p \in 0..(shape[2] - 1) |->
     [a \in 0..(shape[3] - 1) |-> [b \in 0..(shape[4] - 1) |->
        IF a % block_size = b % block_size
        THEN basis_values[k][p][a \div block_size][b \div block_size]
        ELSE 0]]]]

\* A negative index is not returned before the evaluation.
skip_negative_never(index) == FALSE

\* "Skip negative cell indices": if (index < 0) return basis_array;
skip_negative(index) == index < 0

\* The call: what it returns and what it leaves in J, K, detJ.
get_basis_functions(J, K, detJ, x, coordinate_dofs, index, cell_perm, element, affine, num_derivatives) ==
  LET num_points == Len0(x)
      shape == basis_array_shape(element, num_points, num_derivatives)
  IN IF skip_negative(index)
     THEN [basis_array |-> Zeros4(shape), shape |-> shape,
           J |-> J, K |-> K, detJ |-> detJ, evaluated |-> FALSE,
           basis_values |-> << >>]
     ELSE LET pb == pull_back(J, K, detJ, x, coordinate_dofs, affine)
              basis_values == physical_basis_values(element, pb, cell_perm,
                                                    num_points, num_derivatives)
          IN [basis_array |-> expand_blocks(basis_values, shape, element.block_size),
              shape |-> shape, J |-> pb.J, K |-> pb.K, detJ |-> pb.detJ,
              evaluated |-> TRUE, basis_values |-> basis_values]

\* The n physical points handed to the evaluators: alternately the two nodes
\* shared by both cells of the mesh, (1,0) and (0,1).
PhysPoints(n) ==
  [p \in 0..(n - 1) |-> IF p % 2 = 0 THEN Arr(<<1, 0>>) ELSE Arr(<<0, 1>>)]

\* What a caller-supplied buffer may hold before a call.
PriorValues == {0, 7}

\* A buffer of n Jacobians, inverses or determinants filled with v.
FilledMats(n, rows, cols, v) ==
  [p \in 0..(n - 1) |-> [i \in 0..(rows - 1) |-> [j \in 0..(cols - 1) |-> v]]]

GetBasisFunctions ==
  \E index \in {-1} \cup MeshCells, element \in Elements,
     num_derivatives \in {0, 1}, num_points \in 0..MaxPoints,
     slack \in {0, 1}, fill \in PriorValues :
    LET x == PhysPoints(num_points)
        n == num_points + slack
        cell == IF index < 0 THEN 0 ELSE index
        J == FilledMats(n, gdim, tdim, fill)
        K == FilledMats(n, tdim, gdim, fill)
        detJ == [p \in 0..(n - 1) |-> fill]
        ret == get_basis_functions(J, K, detJ, x, cell_coordinate_dofs(x_g, cell),
                                   index, cell_permutation_info[cell], element,
                                   is_affine, num_derivatives)
    IN /\ call = NoCall
       /\ call' = [op |-> "get_basis_functions", status |-> "returned",
                   index |-> index, element |-> element, x |-> x,
                   num_derivatives |-> num_derivatives,
                   J_in |-> J, K_in |-> K, detJ_in |-> detJ, ret |-> ret]
       /\ UNCHANGED <<sortVars, meshVars, configVars>>

\* ------------------------------------------------------------------------
\* Direct calls of pull_back and pull_back_2

\* The unit-square mesh and its mirror image (every cell has detJ = -1).
PullBackGeometries == {x_g0, [i \in DOMAIN x_g0 |-> IF i % 3 = 0 THEN -x_g0[i] ELSE x_g0[i]]}

\* The outcomes of a call whose write to entry 0 of an empty J is out of
\* bounds: the stray write goes unnoticed or the process is terminated.
PullBackStatus(oob) == IF oob THEN {"returned", "crashed"} ELSE {"returned"}

PullBack ==
  \E cell \in MeshCells, num_points \in 0..MaxPoints, slack \in {0, 1},
     fill \in PriorValues :
    LET x == PhysPoints(num_points)
        n == num_points + slack
        J == FilledMats(n, gdim, tdim, fill)
        K == FilledMats(n, tdim, gdim, fill)
        detJ == [p \in 0..(n - 1) |-> fill]
        ret == pull_back(J, K, detJ, x, cell_coordinate_dofs(x_g, cell), is_affine)
    IN /\ call = NoCall
       /\ \E status \in PullBackStatus(ret.oob) :
            call' = [op |-> "pull_back", status |-> status, cell |-> cell,
                     x |-> x, J_in |-> J, K_in |-> K, detJ_in |-> detJ,
                     J |-> ret.J, K |-> ret.K, detJ |-> ret.detJ, X |-> ret.X]
       /\ UNCHANGED <<sortVars, meshVars, configVars>>

PullBack2 ==
  \E cell \in MeshCells, num_points \in 0..MaxPoints, slack \in {0, 1},
     fill \in PriorValues :
    LET x == PhysPoints(num_points)
        n == num_points + slack
        J == FilledMats(n, gdim, tdim, fill)
        K == FilledMats(n, tdim, gdim, fill)
        H == FilledMats(n, gdim, num_second_derivatives, fill)
        ret == pull_back_2(J, K, H, x, cell_coordinate_dofs(x_g, cell), is_affine)
    IN /\ call = NoCall
       /\ \E status \in PullBackStatus(ret.oob) :
            call' = [op |-> "pull_back_2", status |-> status, cell |-> cell,
                     x |-> x, J_in |-> J, K_in |-> K, H_in |-> H,
                     J |-> ret.J, K |-> ret.K, H |-> ret.H, X |-> ret.X,
                     ran |-> ret.ran]
       /\ UNCHANGED <<sortVars, meshVars, configVars>>

InitPullBack ==
  /\ SortUnused
  /\ x_g \in PullBackGeometries
  /\ x_g_negzero = {}
  /\ cell_permutations = << >>
  /\ connectivity = FALSE
  /\ is_affine \in BOOLEAN
  /\ V = LagrangeElement(1)
  /\ u_data = << >>
  /\ ndebug = TRUE
  /\ call = NoCall

NextPullBack == PullBack \/ PullBack2 \/ CallerContinues

SpecPullBack == InitPullBack /\ [][NextPullBack]_vars

\* ------------------------------------------------------------------------
\* compute_facet_jacobians and get_update_jacobian_dependencies
\* (utils.cpp:556-607)

\* The largest r with r * r <= n: the square root, exact for the squares
\* the model feeds it.
Isqrt(n) == CHOOSE r \in 0..n : r * r <= n /\ n < (r + 1) * (r + 1)

\* The Jacobian of the map from the reference facet to local facet f of the
\* reference triangle (tdim x (tdim - 1)).
reference_facet_jacobian(f) ==
  Arr(<<Arr(<<Arr(<<-1>>), Arr(<<1>>)>>),
        Arr(<<Arr(<<0>>), Arr(<<1>>)>>),
        Arr(<<Arr(<<1>>), Arr(<<0>>)>>)>>)[f]

\* dolfinx::math::dot(A, B, C) into a zeroed C
dot(A, B) ==
  [i \in DOMAIN A |-> [j \in DOMAIN B[0] |->
     SumTo([k \in DOMAIN B |-> A[i][k] * B[k][j]], Len0(B))]]

\* CoordinateElement::compute_jacobian_determinant(A) for an A with one
\* column: sqrt(det(A^T A)), the length of the column.
compute_jacobian_determinant_column(A) ==
  Isqrt(SumTo([i \in DOMAIN A |-> A[i][0] * A[i][0]], Len0(A)))

\* compute_facet_jacobians(q, J, K, J_tot, J_f, dphi, coords): the value
\* returned and J, K, J_tot after the call.
compute_facet_jacobians(q, J, K, J_tot, J_f, dphi, coords) ==
  LET dphi0_c == [j \in DOMAIN dphi |-> dphi[j][q]]
      Jn == compute_jacobian(dphi0_c, coords, ZeroMat(Len0(J), Len0(J[0])))
      Kn == compute_jacobian_inverse(Jn)
      Jt == dot(Jn, J_f)
  IN [value |-> Abs(compute_jacobian_determinant_column(Jt)),
      J |-> Jn, K |-> Kn, J_tot |-> Jt]

\* A selection that hands out the affine function for every map.
get_update_jacobian_dependencies_affine_only(affine) == "return_detJ"

\* get_update_jacobian_dependencies(cmap): which of the two lambdas is
\* returned.
get_update_jacobian_dependencies(affine) ==
  IF affine THEN "return_detJ" ELSE "compute_facet_jacobians"

\* A call of the function get_update_jacobian_dependencies returned.
update_jacobian_dependencies(fn, q, detJ, J, K, J_tot, J_f, dphi, coords) ==
  IF fn = "return_detJ"
  THEN [value |-> detJ, J |-> J, K |-> K, J_tot |-> J_tot]
  ELSE compute_facet_jacobians(q, J, K, J_tot, J_f, dphi, coords)

\* The local facets of a cell whose physical length is a whole number.
WholeLengthFacets(xg, cell) ==
  {f \in DOMAIN c_to_f[0] :
     LET Jt == dot(compute_jacobian(cmap_dphi, cell_coordinate_dofs(xg, cell),
                                    ZeroMat(gdim, tdim)),
                   reference_facet_jacobian(f))
         n == Jt[0][0] * Jt[0][0] + Jt[1][0] * Jt[1][0]
     IN Isqrt(n) * Isqrt(n) = n}

\* The determinants a caller may hand to the returned function.
DetJArguments == {-1, 5}

UpdateJacobianDependencies ==
  \E cell \in MeshCells, q \in 0..MaxQDegree, detJ \in DetJArguments,
     fill \in PriorValues :
   \E f \in WholeLengthFacets(x_g, cell) :
    LET fn == get_update_jacobian_dependencies(is_affine)
        J == FilledMats(1, gdim, tdim, fill)[0]
        K == FilledMats(1, tdim, gdim, fill)[0]
        J_tot == FilledMats(1, gdim, tdim - 1, fill)[0]
        J_f == reference_facet_jacobian(f)
        dphi == [j \in DOMAIN cmap_dphi |-> [p \in 0..MaxQDegree |-> cmap_dphi[j]]]
        coords == cell_coordinate_dofs(x_g, cell)
        ret == update_jacobian_dependencies(fn, q, detJ, J, K, J_tot, J_f, dphi, coords)
    IN /\ call = NoCall
       /\ call' = [op |-> "update_jacobian_dependencies", status |-> "returned",
                   fn |-> fn, cell |-> cell, facet |-> f, q |-> q, detJ_in |-> detJ,
                   J_in |-> J, K_in |-> K, J_tot_in |-> J_tot, J_f |-> J_f,
                   value |-> ret.value, J |-> ret.J, K |-> ret.K,
                   J_tot |-> ret.J_tot]
       /\ UNCHANGED <<sortVars, meshVars, configVars>>

NextFacetJacobian == UpdateJacobianDependencies \/ CallerContinues

SpecFacetJacobian == InitPullBack /\ [][NextFacetJacobian]_vars

\* ------------------------------------------------------------------------
\* evaluate_basis_functions (utils.cpp:350-554)

\* evaluate_basis_shape: the shape callers give to basis_values.
evaluate_basis_shape(element, num_points, num_derivatives) ==
  LET bs_element == element.block_size
      value_size == element.value_size \div bs_element
      space_dimension == element.space_dimension \div bs_element
  IN <<num_derivatives * tdim + 1, num_points, space_dimension, value_size>>

\* A rank-4 buffer of the given shape filled with v.
Filled4(shape, v) ==
  [k \in 0..(shape[1] - 1) |-> [p \in 0..(shape[2] - 1) |->
     [i \in 0..(shape[3] - 1) |-> [j \in 0..(shape[4] - 1) |-> v]]]]

\* The slot basis_values[j][p] after the two loops over the points
\* (lines 459-501 and 528-553) for a point that is not skipped.
evaluate_point(element, xg, cell_info, affine, xp, cell_index, j, num_derivatives) ==
  LET coordinate_dofs == cell_coordinate_dofs(xg, cell_index)
      J == compute_jacobian(cmap_dphi, coordinate_dofs, ZeroMat(gdim, tdim))
      K == compute_jacobian_inverse(J)
      detJ == compute_jacobian_determinant(J)
      Xp == pull_back_affine_point(K, coordinate_dofs, xp)
      U == apply_dof_transformation(
             element, tabulate_point(element, Xp, num_derivatives)[j],
             IF element.needs_dof_transformations THEN cell_info[cell_index] ELSE 0)
  IN push_forward_fn(element, U, J, detJ, K)

\* Only the number of cells is compared with the number of points.
shape_mismatch_cells_only(num_points, num_cells, buffer_points) ==
  num_points # num_cells

\* The two argument checks of lines 372-381.
shape_mismatch(num_points, num_cells, buffer_points) ==
  num_points # num_cells \/ num_points # buffer_points

\* The call: its outcome, the basis_values buffer and the permutation cache
\* of the mesh after it.
evaluate_basis_functions(element, xg, cached, affine, x, cs, basis_values, bshape, num_derivatives) ==
  LET num_points == Len0(x)
      unchanged == [basis_values |-> basis_values, cell_permutations |-> cached]
  IN IF shape_mismatch(num_points, Len0(cs), bshape[2])
     THEN [status |-> "invalid_argument"] @@ unchanged
     ELSE IF num_points = 0
     THEN [status |-> "returned"] @@ unchanged
     ELSE IF num_sub_elements(element) > 1
               /\ num_sub_elements(element) # element.block_size
     THEN [status |-> "invalid_argument"] @@ unchanged
     ELSE LET perms == IF element.needs_dof_transformations
                       THEN create_entity_permutations(cached) ELSE cached
              cell_info == IF element.needs_dof_transformations
                           THEN perms ELSE << >>
          IN [status |-> "returned",
              basis_values |->
                \* the slots p < cells.size() of the points that are not
                \* skipped are written, every other slot is left as it was
                [j \in DOMAIN basis_values |-> [p \in DOMAIN basis_values[j] |->
                   IF p \in DOMAIN cs /\ ~skip_negative(cs[p])
                   THEN evaluate_point(element, xg, cell_info, affine, x[p],
                                       cs[p], j, num_derivatives)
                   ELSE basis_values[j][p]]],
              cell_permutations |-> perms]

EvaluateBasisFunctions ==
  \E num_points \in 0..MaxPoints,
     cs \in Arrays(MaxPoints, {-1} \cup MeshCells),
     buffer_points \in 0..MaxPoints, num_derivatives \in {0, 1},
     fill \in PriorValues :
    LET x == PhysPoints(num_points)
        bshape == evaluate_basis_shape(V, buffer_points, num_derivatives)
        buffer == Filled4(bshape, fill)
        ret == evaluate_basis_functions(V, x_g, cell_permutations, is_affine, x,
                                        cs, buffer, bshape, num_derivatives)
    IN /\ call = NoCall
       /\ call' = [op |-> "evaluate_basis_functions", status |-> ret.status,
                   x |-> x, cells |-> cs, num_derivatives |-> num_derivatives,
                   basis_values_in |-> buffer, shape |-> bshape,
                   basis_values |-> ret.basis_values,
                   cell_permutations_before |-> cell_permutations]
       /\ cell_permutations' = ret.cell_permutations
       /\ UNCHANGED <<sortVars, x_g, x_g_negzero, connectivity, configVars>>

InitBasis ==
  /\ SortUnused
  /\ x_g = x_g0
  /\ x_g_negzero = {}
  /\ cell_permutations \in {<< >>, cell_permutation_info}
  /\ connectivity = FALSE
  /\ is_affine \in BOOLEAN
  /\ V \in Elements \cup {MixedElement}
  /\ u_data = << >>
  /\ ndebug = TRUE
  /\ call = NoCall

NextBasis == GetBasisFunctions \/ EvaluateBasisFunctions \/ CallerContinues

SpecBasis == InitBasis /\ [][NextBasis]_vars

\* ------------------------------------------------------------------------
\* pack_coefficient_quadrature (coefficients.cpp:16-270)

\* Sum of F[t] over the elements t of the finite set S.
RECURSIVE SumSet(_, _)
SumSet(S, F) ==
  IF S = {} THEN 0
  ELSE LET t == CHOOSE t \in S : TRUE IN F[t] + SumSet(S \ {t}, F)

\* dolfinx_cuas::QuadratureRule(cell_type, q_degree, dim): the number of
\* points of the rule of the given degree (weights[0].size()).
num_quadrature_points(q_degree) == q_degree + 1

\* points.size(): the number of local sub-entities the rule has points for,
\* one for a cell integral and one per local facet for a facet integral.
num_quadrature_entities(integral) ==
  IF integral = "cell" THEN 1 ELSE Len0(c_to_f[0])

\* points[e] row q: the reference points are the vertices of the reference
\* cell (cell integral) or the end points of the reference facet e.
quadrature_point(integral, e, q) ==
  LET vertices == Arr(<<Arr(<<0, 0>>), Arr(<<1, 0>>), Arr(<<0, 1>>)>>)
      facet_vertices == Arr(<<Arr(<<1, 2>>), Arr(<<0, 2>>), Arr(<<0, 1>>)>>)
  IN IF integral = "cell" THEN vertices[q % 3]
     ELSE vertices[facet_vertices[e][q % 2]]

\* reference_basis_values[e][q][d][l] (lines 76-89)
reference_basis_values(element, integral, num_points) ==
  [e \in 0..(num_quadrature_entities(integral) - 1) |->
     [q \in 0..(num_points - 1) |->
        tabulate_point(element, quadrature_point(integral, e, q), 0)[0]]]

\* fetch_cell (lines 92-96)
fetch_cell(active_entities, i) == <<active_entities[i], 0>>

\* The iterator stays at the beginning of the list.
find_index_begin(a, v) == 0

\* std::find + std::distance: the position of v in a, or its length
find_index(a, v) ==
  IF \E l \in DOMAIN a : a[l] = v
  THEN CHOOSE l \in DOMAIN a : a[l] = v /\ \A m \in DOMAIN a : a[m] = v => l <= m
  ELSE Len0(a)

\* fetch_facet (lines 107-120) when it gets past its assertion: the first
\* cell linked to the facet and the position of the facet in that cell.
fetch_facet(active_entities, i) ==
  LET facet == active_entities[i]
      cell == f_to_c[facet][0]
  IN <<cell, find_index(c_to_f[cell], facet)>>

\* assert(cells.size() == 1) of fetch_facet fails for entity i.
fetch_facet_assert_fails(active_entities, i) ==
  Len0(f_to_c[active_entities[i]]) # 1

\* get_cell_info (lines 122-133)
get_cell_info(integral, active_entities, i) ==
  IF integral = "cell" THEN fetch_cell(active_entities, i)
  ELSE fetch_facet(active_entities, i)

\* cstride with the block size left out.
pack_cstride_unblocked(vs, bs, num_points) == vs * num_points

\* const std::size_t cstride = vs * bs * num_points; (line 139)
pack_cstride(vs, bs, num_points) == vs * bs * num_points

\* The slot of a point computed without the block size.
coeff_index_unblocked(cstride, i, q, k, j, bs, vs) == cstride * i + q * vs + k + j

\* The slot a contribution is added to (lines 243 and 262).
coeff_index(cstride, i, q, k, j, bs, vs) == cstride * i + q * (bs * vs) + k + j

\* basis_values[q][d][j] of one entity in the dof-transformation branch
\* (lines 210-232): Jacobian from the first ng coordinate gradients,
\* orientation word cell_word.
transformed_basis_values(element, ref, xg, cell, entity_index, cell_word, num_points, ng) ==
  [q \in 0..(num_points - 1) |->
     LET coordinate_dofs == cell_coordinate_dofs(xg, cell)
         J == compute_jacobian_n(cmap_dphi, coordinate_dofs, ZeroMat(gdim, tdim), ng)
         K == compute_jacobian_inverse(J)
         detJ == compute_jacobian_determinant(J)
         U == apply_dof_transformation(element, ref[entity_index][q], cell_word)
     IN push_forward_fn(element, U, J, detJ, K)]

\* The sizes the packing works with (lines 66-68, 75).
pack_sizes(element, q_degree) ==
  LET bs == element.block_size
  IN [num_dofs |-> element.space_dimension, bs |-> bs,
      vs |-> element.reference_value_size \div element.block_size,
      num_points |-> num_quadrature_points(q_degree)]

\* The loops over the active entities (lines 193-268): the buffer and, per
\* entity, the set of slots it added to.  cell_word[c] is the orientation
\* word the dof transformation gets for cell c; ng is the number of
\* coordinate gradients dphi_c holds.
pack_loops(element, xg, data, integral, active_entities, q_degree, cell_word, ng) ==
  LET sz == pack_sizes(element, q_degree)
      bs == sz.bs
      vs == sz.vs
      num_points == sz.num_points
      ndofs == sz.num_dofs \div bs
      num_active_entities == Len0(active_entities)
      cstride == pack_cstride(vs, bs, num_points)
      size == num_active_entities * vs * bs * num_points
      ref == reference_basis_values(element, integral, num_points)
      entities == 0..(num_active_entities - 1)
      info == [i \in entities |-> get_cell_info(integral, active_entities, i)]
      basis ==
        [i \in entities |->
           IF element.needs_dof_transformations
           THEN transformed_basis_values(element, ref, xg, info[i][1], info[i][2],
                                         cell_word[info[i][1]], num_points, ng)
           ELSE ref[info[i][2]]]
      dofs == [i \in entities |-> cell_dofs(element, info[i][1])]
      terms == entities \X (0..(ndofs - 1))
                 \X (0..(num_points - 1)) \X (0..(bs - 1)) \X (0..(vs - 1))
      slot == [t \in terms |-> coeff_index(cstride, t[1], t[3], t[4], t[5], bs, vs)]
      value ==
        [t \in terms |->
           basis[t[1]][t[3]][t[2]][t[5]] * data[bs * dofs[t[1]][t[2]] + t[4]]]
  IN [coefficients |->
        [s \in 0..(size - 1) |-> SumSet({t \in terms : slot[t] = s}, value)],
      cstride |-> cstride,
      entity_info |-> info,
      writes |-> [i \in entities |-> {slot[t] : t \in {u \in terms : u[1] = i}}],
      oob |-> \E t \in terms : slot[t] \notin 0..(size - 1)]

\* The integral types a caller may ask for; only the first two are packed.
IntegralTypes == {"cell", "exterior_facet", "interior_facet"}

\* The entities a caller may list for an integral type: both cells; the
\* interior facet 0 and one boundary facet of each cell.
EntitiesOf(integral) ==
  IF integral = "cell" THEN MeshCells
  ELSE IF integral = "exterior_facet" THEN {0, 1, 4}
  ELSE {0}

\* Orientation words a span taken before the permutation info existed may
\* yield when it is read.
StaleWords == {0, 3}

\* coeff->x()->array(): constant fields and one that differs at every dof.
Fields(element) ==
  LET n == element.block_size * num_dofs_global(element)
  IN {[i \in 0..(n - 1) |-> c] : c \in {-2, 3}} \cup {[i \in 0..(n - 1) |-> i + 1]}

\* The outcomes open to a call in the current state (see below).
PackGetterOutcomes ==
  IF V.needs_dof_transformations /\ cell_permutations = << >>
  THEN BOOLEAN ELSE {FALSE}

PackStaleWords ==
  IF V.needs_dof_transformations /\ cell_permutations = << >>
  THEN StaleWords ELSE {0}

PackShapeOutcomes ==
  IF V.needs_dof_transformations /\ num_dofs_g \div V.block_size # num_dofs_g
  THEN BOOLEAN ELSE {FALSE}

\* The whole call.  getter_throws, stale_word and shape_throws select among
\* the outcomes of the two places whose behaviour the source does not fix:
\*  - line 58 reads get_cell_permutation_info() before line 59 computes it;
\*    on a mesh without cached permutation info the getter either throws
\*    or hands out an empty vector, whose span is then read out of bounds by
\*    the dof transformation;
\*  - lines 170-179 size dphi_c with num_dofs_g / bs and assign the
\*    num_dofs_g gradients of the coordinate element to it; when the two
\*    differ the assignment either throws or keeps the first gradients.
PackCoefficientQuadrature ==
  \E integral \in IntegralTypes, q_degree \in 0..MaxQDegree,
     getter_throws \in PackGetterOutcomes, shape_throws \in PackShapeOutcomes :
   \E active_entities \in Arrays(MaxEntities, EntitiesOf(integral)),
      stale_word \in (IF getter_throws THEN {0} ELSE PackStaleWords) :
    LET needs == V.needs_dof_transformations
        uncached == needs /\ cell_permutations = << >>
        perms_after == IF needs THEN create_entity_permutations(cell_permutations)
                       ELSE cell_permutations
        conn_after == connectivity \/ integral = "exterior_facet"
        ng == num_dofs_g \div V.block_size
        cell_word == [c \in MeshCells |->
                        IF uncached THEN stale_word ELSE cell_permutations[c]]
        base == [op |-> "pack_coefficient_quadrature", integral |-> integral,
                 active_entities |-> active_entities, q_degree |-> q_degree,
                 cell_permutations_before |-> cell_permutations,
                 connectivity_before |-> connectivity,
                 cell_info_stale |-> uncached,
                 cell_info |-> IF needs THEN cell_word ELSE << >>]
        none == [coefficients |-> << >>, cstride |-> 0, writes |-> << >>,
                 entity_info |-> << >>]
    IN /\ call = NoCall
       /\ IF integral \notin {"cell", "exterior_facet"}
          THEN \* line 42: throw std::runtime_error("Unsupported integral type")
               /\ call' = base @@ none @@ [status |-> "runtime_error"]
               /\ UNCHANGED meshVars
          ELSE IF uncached /\ getter_throws
          THEN \* line 58: the getter refuses, nothing has been computed
               /\ call' = base @@ none @@ [status |-> "runtime_error"]
               /\ UNCHANGED meshVars
          ELSE IF needs /\ ng # num_dofs_g /\ shape_throws
          THEN \* lines 176-179: the assignment to dphi_c fails
               /\ call' = base @@ none @@ [status |-> "shape_error"]
               /\ cell_permutations' = perms_after
               /\ connectivity' = conn_after
               /\ UNCHANGED <<x_g, x_g_negzero>>
          ELSE IF /\ ~ndebug
                  /\ integral = "exterior_facet"
                  /\ \E i \in DOMAIN active_entities :
                       fetch_facet_assert_fails(active_entities, i)
          THEN \* line 112: the assertion stops the process
               /\ call' = base @@ none @@ [status |-> "aborted"]
               /\ cell_permutations' = perms_after
               /\ connectivity' = conn_after
               /\ UNCHANGED <<x_g, x_g_negzero>>
          ELSE LET res == pack_loops(V, x_g, u_data, integral, active_entities,
                                     q_degree, cell_word, ng)
               IN /\ call' = base @@ [status |-> "returned",
                                      coefficients |-> res.coefficients,
                                      cstride |-> res.cstride,
                                      entity_info |-> res.entity_info,
                                      writes |-> res.writes]
                  /\ cell_permutations' = perms_after
                  /\ connectivity' = conn_after
                  /\ UNCHANGED <<x_g, x_g_negzero>>
       /\ UNCHANGED <<sortVars, configVars>>

InitPack ==
  /\ SortUnused
  /\ x_g = x_g0
  /\ x_g_negzero = {}
  /\ cell_permutations \in {<< >>, cell_permutation_info}
  /\ connectivity = FALSE
  /\ is_affine = TRUE
  /\ V \in Elements
  /\ u_data \in Fields(V)
  /\ ndebug \in BOOLEAN
  /\ call = NoCall

NextPack == PackCoefficientQuadrature \/ CallerContinues

SpecPack == InitPack /\ [][NextPack]_vars

\* ------------------------------------------------------------------------
\* pack_circumradius (coefficients.cpp:272-362)

\* The (cell, local facet) pairs a caller may list.
FacetPairs == {<<c, f>> : c \in MeshCells, f \in DOMAIN c_to_f[0]}

\* compute_circumradius(mesh, detJ, coordinate_dofs) is defined outside the
\* two source files: it is kept as the uninterpreted application to the
\* arguments the call hands it.
compute_circumradius(detJ, coordinate_dofs) ==
  [detJ |-> detJ, coordinate_dofs |-> coordinate_dofs]

\* A guard that lets every coordinate map through.
circumradius_unsupported_never(affine) == FALSE

\* if (!mesh.geometry().cmap().is_affine()) (line 276)
circumradius_unsupported(affine) == ~affine

\* The loop over the active facets (lines 333-359): one push_back per pair.
circumradius_loop(xg, active_facets) ==
  [n \in DOMAIN active_facets |->
     LET cell == active_facets[n][1]
         local_index == active_facets[n][2]
         coordinate_dofs == cell_coordinate_dofs(xg, cell)
         \* dphi_c[local_index]: the gradients at the point of that facet
         dphi == cmap_dphi
         J == compute_jacobian(dphi, coordinate_dofs, ZeroMat(gdim, tdim))
         detJ == compute_jacobian_determinant(J)
     IN compute_circumradius(detJ, coordinate_dofs)]

pack_circumradius(xg, affine, active_facets) ==
  IF circumradius_unsupported(affine)
  THEN \* throw std::runtime_error("Non-affine circumradius is not implemented")
       [status |-> "runtime_error", circumradius |-> << >>, cstride |-> 0]
  ELSE [status |-> "returned",
        circumradius |-> circumradius_loop(xg, active_facets),
        cstride |-> 1]

PackCircumradius ==
  \E active_facets \in Arrays(MaxFacetPairs, FacetPairs) :
    LET ret == pack_circumradius(x_g, is_affine, active_facets)
    IN /\ call = NoCall
       /\ call' = [op |-> "pack_circumradius", status |-> ret.status,
                   active_facets |-> active_facets,
                   circumradius |-> ret.circumradius, cstride |-> ret.cstride]
       /\ UNCHANGED <<sortVars, meshVars, configVars>>

\* The unit-square mesh and the same mesh stretched to twice its width.
MeshGeometries ==
  {x_g0, [i \in DOMAIN x_g0 |-> IF i % 3 = 0 THEN 2 * x_g0[i] ELSE x_g0[i]]}

InitRadius ==
  /\ SortUnused
  /\ x_g \in MeshGeometries
  /\ x_g_negzero = {}
  /\ cell_permutations \in {<< >>, cell_permutation_info}
  /\ connectivity = FALSE
  /\ is_affine \in BOOLEAN
  /\ V = LagrangeElement(1)
  /\ u_data = << >>
  /\ ndebug = TRUE
  /\ call = NoCall

NextRadius == PackCircumradius \/ CallerContinues

SpecRadius == InitRadius /\ [][NextRadius]_vars

\* ------------------------------------------------------------------------
\* update_geometry (utils.cpp:297-339)

\* A dx that starts with a stale non-zero value in every entry.
new_dx_stale(n) == [p \in 0..(n - 1) |-> 1]

\* std::vector<double> dx(coords.size()): value-initialised, all +0.0
new_dx(n) == [p \in 0..(n - 1) |-> 0]

\* The displacement is added to what the entry already holds.
dx_accumulate(old, v) == old + v

\* The assignment of line 333: the entry is overwritten, whatever an
\* earlier cell stored in it.
dx_assign(old, v) == v

\* The loops over c, i and j (lines 326-335), iteration n of total:
\* dx[3 * dofs_x[i] + j] = u_data[bs * dofs[i] + j]
RECURSIVE dx_loop(_, _, _, _, _)
dx_loop(element, data, dx, n, total) ==
  IF n >= total THEN dx
  ELSE LET bs == element.block_size
           ndofs == Len0(cell_dofs(element, 0))
           c == n \div (ndofs * bs)
           i == (n \div bs) % ndofs
           j == n % bs
           dofs == cell_dofs(element, c)
           dofs_x == x_dofmap[c]
       IN dx_loop(element, data,
                  [dx EXCEPT ![3 * dofs_x[i] + j] =
                               dx_assign(dx[3 * dofs_x[i] + j], data[bs * dofs[i] + j])],
                  n + 1, total)

\* std::plus<double> on one coordinate and one entry of dx.  The sum of two
\* zeros is -0.0 only when both are -0.0; dx never holds -0.0 here.
std_plus(a, a_negzero, b, b_negzero) ==
  [value |-> a + b, negzero |-> a_negzero /\ b_negzero]

\* The coordinates after update_geometry(u, mesh).
update_geometry(element, data, coords, negzero) ==
  LET bs == element.block_size
      total == num_cells_mesh * Len0(cell_dofs(element, 0)) * bs
      dx == dx_loop(element, data, new_dx(Len0(coords)), 0, total)
      sum == [p \in DOMAIN coords |->
                std_plus(coords[p], p \in negzero, dx[p], FALSE)]
  IN [coords |-> [p \in DOMAIN coords |-> sum[p].value],
      negzero |-> {p \in DOMAIN coords : sum[p].negzero}]

\* assert(dofmap->element_dof_layout() == cmap().create_dof_layout()) holds
\* (lines 310-311): the dofs of the field sit where the coordinate dofs sit.
same_dof_layout(element) == element.family = "Lagrange"

\* Displacement fields: zero, a unit shift, one that moves every second dof
\* and one that moves the first component of dof 2 only.
DisplacementFields(element) ==
  LET n == element.block_size * num_dofs_global(element)
  IN {[i \in 0..(n - 1) |-> 0], [i \in 0..(n - 1) |-> 1],
      [i \in 0..(n - 1) |-> i % 2],
      [i \in 0..(n - 1) |-> IF i = 2 * element.block_size THEN 1 ELSE 0]}

UpdateGeometry ==
  LET ret == update_geometry(V, u_data, x_g, x_g_negzero)
      base == [op |-> "update_geometry", u_data |-> u_data, x_before |-> x_g,
               negzero_before |-> x_g_negzero]
  IN /\ call = NoCall
     /\ \A p \in DOMAIN ret.coords : ret.coords[p] <= MaxCoord
     /\ IF ~ndebug /\ ~same_dof_layout(V)
        THEN \* the assertion stops the process
             /\ call' = base @@ [status |-> "aborted"]
             /\ UNCHANGED meshVars
        ELSE /\ call' = base @@ [status |-> "returned"]
             /\ x_g' = ret.coords
             /\ x_g_negzero' = ret.negzero
             /\ UNCHANGED <<cell_permutations, connectivity>>
     /\ UNCHANGED <<sortVars, configVars>>

\* Between two calls the caller's solver writes new values into u.
CallerSetsField ==
  /\ call = NoCall
  /\ u_data' \in DisplacementFields(V) \ {u_data}
  /\ UNCHANGED <<sortVars, meshVars, is_affine, V, ndebug, call>>

\* The coordinate arrays of the mesh: its four nodes, and the same with a
\* fifth node (2,2) that no cell refers to.
GeometryArrays ==
  {x_g0, [p \in 0..(Len0(x_g0) + 2) |->
            IF p \in DOMAIN x_g0 THEN x_g0[p] ELSE IF p = Len0(x_g0) + 2 THEN 0 ELSE 2]}

\* Positions of the undeformed coordinates that may hold -0.0.
NegZeroChoices == {{}, {0}, {1, 2}}

InitGeometry ==
  /\ SortUnused
  /\ x_g \in GeometryArrays
  /\ x_g_negzero \in NegZeroChoices
  /\ cell_permutations = << >>
  /\ connectivity = FALSE
  /\ is_affine = TRUE
  /\ V \in Elements
  /\ u_data \in DisplacementFields(V)
  /\ ndebug \in BOOLEAN
  /\ call = NoCall

NextGeometry == UpdateGeometry \/ CallerSetsField \/ CallerContinues

SpecGeometry == InitGeometry /\ [][NextGeometry]_vars

\* ------------------------------------------------------------------------
\* sort_cells (utils.cpp:266-294)

\* std::iota(perm.begin(), perm.end(), 0)
iota(n) == [i \in 0..(n - 1) |-> i]

\* Position of index j in the stable ascending order of the keys a[perm[.]].
\* perm is the identity when argsort_radix is called, so ties are broken by
\* the index itself (a radix sort is stable).
Rank(a, p, j) ==
  Cardinality({k \in DOMAIN p :
                 \/ a[p[k]] < a[p[j]]
                 \/ (a[p[k]] = a[p[j]] /\ k < j)})

\* A sort that leaves perm as it was.
argsort_radix_noop(a, p) == p

\* dolfinx::argsort_radix(cells, perm): permute perm so that the keys
\* cells[perm[i]] are ascending.
argsort_radix(a, p) ==
  [i \in DOMAIN p |-> p[CHOOSE j \in DOMAIN p : Rank(a, p, j) = i]]

\* for i: unique_cells[i] = cells[perm[i]]
gather(a, p) == [i \in DOMAIN p |-> a[p[i]]]

\* The boundary stored one position early.
boundary_offset_early(i) == i

\* One iteration of the loop "Compute the number of identical cells":
\* the offset stored at a boundary between two different sorted values.
boundary_offset(i) == i + 1

\* for (i = 0; i < num_cells - 1; ++i)
\*   if (unique_cells[i] != unique_cells[i + 1]) offsets[++index] = i + 1;
\* Returns the pair [index, offsets] after the iterations i..num_cells-2.
RECURSIVE offsets_loop(_, _, _, _, _)
offsets_loop(sorted, num_cells, i, index, offs) ==
  IF i >= num_cells - 1 THEN [index |-> index, offsets |-> offs]
  ELSE IF sorted[i] # sorted[i + 1]
       THEN offsets_loop(sorted, num_cells, i + 1, index + 1,
                         [offs EXCEPT ![index + 1] = boundary_offset(i)])
       ELSE offsets_loop(sorted, num_cells, i + 1, index, offs)

\* std::unique + erase on a sorted array: keep the first element of each run.
RECURSIVE std_unique(_, _)
std_unique(sorted, n) ==
  IF n = 0 THEN << >>
  ELSE LET head == std_unique(sorted, n - 1)
           m == Len0(head)
       IN IF n >= 2 /\ sorted[n - 1] = sorted[n - 2]
          THEN head
          ELSE [i \in 0..m |-> IF i < m THEN head[i] ELSE sorted[n - 1]]

\* offsets.resize(n): keep the first n entries (value-initialise new ones).
resize(a, n) == [i \in 0..(n - 1) |-> IF i \in DOMAIN a THEN a[i] ELSE 0]

\* The state of sort_cells just before "offsets[index + 1] = num_cells".
sort_cells_loops(c) ==
  LET num_cells == Len0(c)
      p == argsort_radix(c, iota(num_cells))
      sorted == gather(c, p)
      offs0 == [i \in 0..num_cells |-> 0]
      lp == offsets_loop(sorted, num_cells, 0, 0, offs0)
  IN [perm |-> p, sorted |-> sorted, index |-> lp.index, offsets |-> lp.offsets,
      num_cells |-> num_cells]

\* TRUE when the write offsets[index + 1] = num_cells is past the end of
\* offsets (a vector of num_cells + 1 entries).
sort_cells_write_oob(c) ==
  LET s == sort_cells_loops(c) IN (s.index + 1) \notin DOMAIN s.offsets

\* The value sort_cells returns (and the perm it leaves) when it returns.
sort_cells_result(c) ==
  LET s == sort_cells_loops(c)
      offs1 == IF (s.index + 1) \in DOMAIN s.offsets
               THEN [s.offsets EXCEPT ![s.index + 1] = s.num_cells]
               ELSE s.offsets   \* the write lands outside the vector
      uniq == std_unique(s.sorted, s.num_cells)
  IN [status |-> "returned", unique |-> uniq,
      offsets |-> resize(offs1, Len0(uniq) + 1),
      oob |-> sort_cells_write_oob(c)]

SortIdle == [status |-> "idle", unique |-> << >>, offsets |-> << >>, oob |-> FALSE]

\* sort_cells returns.  When the write at line 288 is out of bounds this is
\* the outcome in which the stray write hits unused heap memory.
SortCells ==
  /\ sort_ret.status = "idle"
  /\ perm' = sort_cells_loops(cells).perm
  /\ sort_ret' = sort_cells_result(cells)
  /\ UNCHANGED <<cells, meshVars, configVars, call>>

\* The other outcome of the out-of-bounds write at line 288: the process is
\* terminated (hardened standard library, sanitizer, corrupted heap).
SortCellsCrash ==
  /\ sort_ret.status = "idle"
  /\ sort_cells_write_oob(cells)
  /\ perm' = sort_cells_loops(cells).perm
  /\ sort_ret' = [SortIdle EXCEPT !.status = "crashed", !.oob = TRUE]
  /\ UNCHANGED <<cells, meshVars, configVars, call>>

InitSort ==
  /\ cells \in Arrays(MaxCells, 0..MaxCellId)
  /\ perm = [i \in DOMAIN cells |-> 0]
  /\ sort_ret = SortIdle
  /\ x_g = x_g0
  /\ x_g_negzero = {}
  /\ cell_permutations = << >>
  /\ connectivity = FALSE
  /\ is_affine = TRUE
  /\ V = LagrangeElement(1)
  /\ u_data = << >>
  /\ ndebug = TRUE
  /\ call = NoCall

NextSort == SortCells \/ SortCellsCrash

SpecSort == InitSort /\ [][NextSort]_vars

\* ------------------------------------------------------------------------
\* The operations that take the mesh or the field as a const argument, called
\* in any order on one mesh: sort_cells, get_basis_functions,
\* evaluate_basis_functions, pack_coefficient_quadrature, pack_circumradius.

\* The input of the one sort_cells call of a run.
CoreCells == Arr(<<1, 0, 1>>)

InitCore ==
  /\ cells = CoreCells
  /\ perm = [i \in DOMAIN cells |-> 0]
  /\ sort_ret = SortIdle
  /\ x_g = x_g0
  /\ x_g_negzero = {}
  /\ cell_permutations = << >>
  /\ connectivity = FALSE
  /\ is_affine = TRUE
  /\ V \in {LagrangeElement(1), NedelecElement(1)}
  /\ u_data = [i \in 0..(num_dofs_global(V) - 1) |-> i + 1]
  /\ ndebug = TRUE
  /\ call = NoCall

NextCore ==
  \/ SortCells
  \/ GetBasisFunctions
  \/ EvaluateBasisFunctions
  \/ PackCoefficientQuadrature
  \/ PackCircumradius
  \/ CallerContinues

SpecCore == InitCore /\ [][NextCore]_vars

\* ------------------------------------------------------------------------
\* Properties of sort_cells

\* Number of occurrences of value v in array a.
Count(a, v) == Cardinality({k \in DOMAIN a : a[k] = v})

\* Sum of the differences offs[i+1] - offs[i] for i < n.
RECURSIVE SumDiffs(_, _)
SumDiffs(offs, n) ==
  IF n = 0 THEN 0 ELSE SumDiffs(offs, n - 1) + (offs[n] - offs[n - 1])

\* C1: whenever sort_cells returns, offsets has one entry more than unique,
\* starts at 0, each difference offsets[i+1] - offsets[i] is the number of
\* occurrences of unique[i] in cells, and the differences sum to len(cells).
C1_OffsetsCountOccurrences ==
  sort_ret.status = "returned" =>
    LET u == sort_ret.unique
        o == sort_ret.offsets
    IN /\ Len0(o) = Len0(u) + 1
       /\ DOMAIN o = 0..Len0(u)
       /\ o[0] = 0
       /\ \A i \in DOMAIN u : o[i + 1] - o[i] = Count(cells, u[i])
       /\ SumDiffs(o, Len0(u)) = Len0(cells)

\* The example of the specification: [5,3,5,1,3] gives [1,3,5] and [0,1,3,5].
C1_Witness ==
  /\ sort_ret.status = "returned"
  /\ cells = [i \in 0..4 |-> <<5, 3, 5, 1, 3>>[i + 1]]
  /\ sort_ret.unique = [i \in 0..2 |-> <<1, 3, 5>>[i + 1]]
  /\ sort_ret.offsets = [i \in 0..3 |-> <<0, 1, 3, 5>>[i + 1]]

\* C2: whenever sort_cells returns, perm is a permutation of 0..len(cells)-1
\* that sorts cells in non-decreasing order, unique is strictly increasing
\* and holds exactly the distinct values of cells, and the positions
\* offsets[i] .. offsets[i+1]-1 of perm all point at cells equal to unique[i].
C2_PermSortsAndGroups ==
  sort_ret.status = "returned" =>
    LET u == sort_ret.unique
        o == sort_ret.offsets
        n == Len0(cells)
    IN /\ DOMAIN perm = 0..(n - 1)
       /\ {perm[i] : i \in DOMAIN perm} = 0..(n - 1)
       /\ \A i \in 0..(n - 2) : cells[perm[i]] <= cells[perm[i + 1]]
       /\ \A i \in 0..(Len0(u) - 2) : u[i] < u[i + 1]
       /\ {u[i] : i \in DOMAIN u} = {cells[k] : k \in DOMAIN cells}
       /\ \A i \in DOMAIN u :
            \A p \in o[i]..(o[i + 1] - 1) :
              p \in DOMAIN perm /\ cells[perm[p]] = u[i]

\* An unsorted input with a repeated value has been sorted and grouped.
C2_Witness ==
  /\ sort_ret.status = "returned"
  /\ \E i, j \in DOMAIN cells : i < j /\ cells[i] > cells[j]
  /\ \E i, j \in DOMAIN cells : i # j /\ cells[i] = cells[j]
  /\ Len0(sort_ret.unique) >= 2
  /\ perm # iota(Len0(cells))

\* ------------------------------------------------------------------------
\* Properties of the basis evaluators

\* The rank-4 array a has the given shape and every entry of it is zero.
AllZero4(a, shape) ==
  /\ DOMAIN a = 0..(shape[1] - 1)
  /\ \A k \in DOMAIN a :
       /\ DOMAIN a[k] = 0..(shape[2] - 1)
       /\ \A p \in DOMAIN a[k] :
            /\ DOMAIN a[k][p] = 0..(shape[3] - 1)
            /\ \A i \in DOMAIN a[k][p] :
                 /\ DOMAIN a[k][p][i] = 0..(shape[4] - 1)
                 /\ \A j \in DOMAIN a[k][p][i] : a[k][p][i][j] = 0

\* C3: get_basis_functions with a negative entity index returns (it does not
\* fail) an array of shape (num_derivatives * tdim + 1, number of points,
\* basis count of the element, value size of the element) whose entries
\* are all zero.
C3_NegativeIndexZeroBuffer ==
  (call.op = "get_basis_functions" /\ call.index < 0) =>
    /\ call.status = "returned"
    /\ call.ret.shape = <<call.num_derivatives * tdim + 1, Len0(call.x),
                          call.element.space_dimension, call.element.value_size>>
    /\ AllZero4(call.ret.basis_array, call.ret.shape)

\* A negative index with points, first derivatives and a blocked element.
C3_Witness ==
  /\ call.op = "get_basis_functions"
  /\ call.index < 0
  /\ call.status = "returned"
  /\ call.num_derivatives = 1
  /\ Len0(call.x) = MaxPoints
  /\ call.element.block_size = 2
  /\ call.ret.shape[3] = 6

\* C4: evaluate_basis_functions fails with an invalid-argument error whenever
\* the number of points differs from the number of cell indices or from the
\* point dimension of basis_values, and then neither basis_values nor the
\* mesh (its permutation cache, its coordinates) has been changed.
C4_ShapeMismatchFailsFast ==
  (/\ call.op = "evaluate_basis_functions"
   /\ \/ Len0(call.x) # Len0(call.cells)
      \/ Len0(call.x) # call.shape[2]) =>
    /\ call.status = "invalid_argument"
    /\ call.basis_values = call.basis_values_in
    /\ cell_permutations = call.cell_permutations_before
    /\ x_g = x_g0
    /\ x_g_negzero = {}

\* A rejected call on an element that needs dof transformations, on a mesh
\* whose permutation info is not computed, with a non-empty non-zero buffer.
C4_Witness ==
  /\ call.op = "evaluate_basis_functions"
  /\ call.status = "invalid_argument"
  /\ Len0(call.x) = Len0(call.cells)
  /\ Len0(call.x) # call.shape[2]
  /\ call.shape[2] > 0
  /\ call.basis_values[0][0][0][0] # 0
  /\ V.needs_dof_transformations
  /\ cell_permutations = << >>

\* The other rejected call: points and cell indices differ in number.
C4_WitnessCells ==
  /\ call.op = "evaluate_basis_functions"
  /\ call.status = "invalid_argument"
  /\ Len0(call.x) # Len0(call.cells)
  /\ Len0(call.x) = call.shape[2]

\* C5: after evaluate_basis_functions has returned, the slot
\* basis_values[j][p] of every point p with a negative cell index is
\* zero-filled for every derivative index j, whatever the buffer held before
\* the call, and the call did not fail because of such a point.
C5_SentinelSlotsZeroFilled ==
  (/\ call.op = "evaluate_basis_functions"
   /\ Len0(call.x) = Len0(call.cells)
   /\ Len0(call.x) = call.shape[2]
   /\ V.family # "Mixed") =>
    /\ call.status = "returned"
    /\ \A p \in DOMAIN call.cells :
         call.cells[p] < 0 =>
           \A j \in DOMAIN call.basis_values :
             \A i \in DOMAIN call.basis_values[j][p] :
               \A r \in DOMAIN call.basis_values[j][p][i] :
                 call.basis_values[j][p][i][r] = 0

\* ------------------------------------------------------------------------
\* Properties of pack_coefficient_quadrature

PackReturned ==
  call.op = "pack_coefficient_quadrature" /\ call.status = "returned"

\* Every dof value of the field is the constant c.
ConstantField(c) == \A i \in DOMAIN u_data : u_data[i] = c

\* The element has one value component per block, the identity push-forward
\* and basis values that sum to 1 at every quadrature point of the rule.
PartitionOfUnity(element, integral, q_degree) ==
  LET sz == pack_sizes(element, q_degree)
      ref == reference_basis_values(element, integral, sz.num_points)
  IN /\ ~element.needs_dof_transformations
     /\ sz.vs = 1
     /\ \A e \in DOMAIN ref : \A q \in DOMAIN ref[e] :
          SumTo([d \in DOMAIN ref[e][q] |-> ref[e][q][d][0]],
                Len0(ref[e][q])) = 1

\* C7: when every dof value of the field is the same constant c and the
\* basis values of the element sum to 1 at every quadrature point (identity
\* push-forward), every entry of the buffer pack_coefficient_quadrature
\* returns equals c, for cell and facet integrals and every block size.
C7_ConstantFieldReproduced ==
  \A c \in {-2, 3} :
    (/\ PackReturned
     /\ ConstantField(c)
     /\ PartitionOfUnity(V, call.integral, call.q_degree))
    => \A s \in DOMAIN call.coefficients : call.coefficients[s] = c

\* A facet integral of a constant blocked field over two facets and two
\* quadrature points has returned.
C7_Witness ==
  /\ PackReturned
  /\ call.integral = "exterior_facet"
  /\ Len0(call.active_entities) = 2
  /\ call.q_degree = 1
  /\ V = LagrangeElement(2)
  /\ ConstantField(3)
  /\ Len0(call.coefficients) = 8

\* The same for a cell integral.
C7_WitnessCell ==
  /\ PackReturned
  /\ call.integral = "cell"
  /\ Len0(call.active_entities) = 2
  /\ V = LagrangeElement(2)
  /\ ConstantField(-2)
  /\ Len0(call.coefficients) > 0

\* C8: the stride pack_coefficient_quadrature returns is (value size per
\* block) * block size * number of quadrature points, the buffer has
\* (number of active entities) * stride entries, the contributions of
\* entity i all land in the index range [i*stride, (i+1)*stride), and an
\* empty entity list yields an empty buffer.
C8_StrideAndLayout ==
  PackReturned =>
    LET n == Len0(call.active_entities)
        stride == call.cstride
    IN /\ stride = (V.value_size \div V.block_size) * V.block_size
                     * num_quadrature_points(call.q_degree)
       /\ Len0(call.coefficients) = n * stride
       /\ DOMAIN call.writes = 0..(n - 1)
       /\ \A i \in DOMAIN call.writes :
            /\ call.writes[i] # {}
            /\ call.writes[i] \subseteq (i * stride)..((i + 1) * stride - 1)
       /\ (n = 0 => call.coefficients = << >>)

\* A blocked vector-valued field has been packed for two entities.
C8_Witness ==
  /\ PackReturned
  /\ Len0(call.active_entities) = 2
  /\ V = NedelecElement(2)
  /\ call.q_degree = 1
  /\ call.cstride = 8

\* An empty entity list has been packed.
C8_WitnessEmpty ==
  /\ PackReturned
  /\ call.active_entities = << >>
  /\ call.coefficients = << >>

\* The call listed a facet that does not have exactly one adjacent cell and
\* got as far as looking its cell up.
ListsNonBoundaryFacet ==
  /\ call.op = "pack_coefficient_quadrature"
  /\ call.integral = "exterior_facet"
  /\ \E i \in DOMAIN call.active_entities :
       fetch_facet_assert_fails(call.active_entities, i)
  /\ call.status \notin {"runtime_error", "shape_error"}

\* C10: a facet integral that lists a facet adjacent to a number of cells
\* other than one fails with an invalid-argument error and returns no
\* buffer.
C10_NonBoundaryFacetRejected ==
  ListsNonBoundaryFacet =>
    call.status = "invalid_argument" /\ call.coefficients = << >>

\* ------------------------------------------------------------------------
\* Properties of pack_circumradius

\* Twice the signed area of a cell, from its node coordinates.
SignedArea2(cell) ==
  LET X(k) == x_g[3 * x_dofmap[cell][k]]
      Y(k) == x_g[3 * x_dofmap[cell][k] + 1]
  IN (X(1) - X(0)) * (Y(2) - Y(0)) - (X(2) - X(0)) * (Y(1) - Y(0))

\* C6: on a mesh whose coordinate map is not affine pack_circumradius fails
\* with the "not implemented" runtime error and returns no value, whatever
\* the list of active facets (the empty list included); on an affine map it
\* returns one value per (cell, local facet) pair, the n-th computed from
\* the geometry of the cell of the n-th pair, and the stride 1.
C6_CircumradiusAffineOnly ==
  call.op = "pack_circumradius" =>
    IF ~is_affine
    THEN call.status = "runtime_error" /\ call.circumradius = << >>
    ELSE /\ call.status = "returned"
         /\ call.cstride = 1
         /\ DOMAIN call.circumradius = DOMAIN call.active_facets
         /\ \A n \in DOMAIN call.active_facets :
              LET cell == call.active_facets[n][1]
                  r == call.circumradius[n]
              IN /\ r.detJ = SignedArea2(cell)
                 /\ \A k \in 0..2 : \A j \in 0..1 :
                      r.coordinate_dofs[k][j] = x_g[3 * x_dofmap[cell][k] + j]

\* A call with a non-empty list on a non-affine mesh has failed.
C6_Witness ==
  /\ call.op = "pack_circumradius"
  /\ ~is_affine
  /\ Len0(call.active_facets) >= 2
  /\ call.status = "runtime_error"

\* A call with the empty list on a non-affine mesh has failed.
C6_WitnessEmpty ==
  /\ call.op = "pack_circumradius"
  /\ ~is_affine
  /\ call.active_facets = << >>
  /\ call.status = "runtime_error"

\* A call on an affine mesh has returned values for pairs of different
\* cells, the second cell listed first, whose values differ.
C6_WitnessAffine ==
  /\ call.op = "pack_circumradius"
  /\ is_affine
  /\ call.status = "returned"
  /\ Len0(call.active_facets) = 3
  /\ call.active_facets[0][1] = 1
  /\ call.active_facets[1][1] = 0
  /\ call.circumradius[0] # call.circumradius[1]

\* ------------------------------------------------------------------------
\* Properties of update_geometry

UpdatedWithZeroField ==
  /\ call.op = "update_geometry"
  /\ call.status = "returned"
  /\ \A i \in DOMAIN call.u_data : call.u_data[i] = 0

C11_OnlyUpdateGeometryMutates ==
  [][/\ x_g' = x_g
     /\ x_g_negzero' = x_g_negzero
     /\ u_data' = u_data
     /\ connectivity' = connectivity
     /\ cell_permutations' = cell_permutations]_vars

\* C11 as amended: no call of these operations changes the coordinate array
\* or the field data; the topology connectivity and the cell-permutation
\* cache may be created by a call, and once created they do not change.
C11_OnlyCachesAreCreated ==
  [][/\ x_g' = x_g
     /\ x_g_negzero' = x_g_negzero
     /\ u_data' = u_data
     /\ (connectivity => connectivity')
     /\ cell_permutations' \in {cell_permutations, cell_permutation_info}
     /\ (cell_permutations # << >> => cell_permutations' = cell_permutations)]_vars

\* pack_coefficient_quadrature has been called after evaluate_basis_functions
\* had created the permutation cache, and has created the connectivity.
C11_Witness ==
  /\ call.op = "pack_coefficient_quadrature"
  /\ call.status = "returned"
  /\ call.cell_permutations_before = cell_permutation_info
  /\ ~call.connectivity_before
  /\ connectivity
  /\ sort_ret.status = "returned"

\* ------------------------------------------------------------------------
\* Properties of pull_back and pull_back_2

\* C12: after pull_back on an affine coordinate map, J[p] = J[0],
\* K[p] = K[0] and detJ[p] = detJ[0] for every point index p below the
\* number of points (so detJ has one sign over the cell), whatever J, K and
\* detJ held before the call.
C12_AffineJacobianBroadcast ==
  (call.op = "pull_back" /\ call.status = "returned" /\ is_affine) =>
    \A p \in DOMAIN call.x :
      /\ call.J[p] = call.J[0]
      /\ call.K[p] = call.K[0]
      /\ call.detJ[p] = call.detJ[0]
      /\ (call.detJ[p] < 0 <=> call.detJ[0] < 0)
      /\ call.J[p] = compute_jacobian(cmap_dphi, cell_coordinate_dofs(x_g, call.cell),
                                      ZeroMat(gdim, tdim))

\* An affine pull_back of two points of a mirrored cell into buffers that
\* held 7s: the determinant is negative at both points.
C12_Witness ==
  /\ call.op = "pull_back"
  /\ call.status = "returned"
  /\ is_affine
  /\ Len0(call.x) = 2
  /\ call.detJ_in[1] = 7
  /\ call.detJ[0] = -1
  /\ call.detJ[1] = -1

FacetLengthSquared(cell, f) ==
  LET ends == Arr(<<Arr(<<1, 2>>), Arr(<<0, 2>>), Arr(<<0, 1>>)>>)[f]
      a == x_dofmap[cell][ends[0]]
      b == x_dofmap[cell][ends[1]]
      dx == x_g[3 * b] - x_g[3 * a]
      dy == x_g[3 * b + 1] - x_g[3 * a + 1]
  IN dx * dx + dy * dy

C14_WitnessAffine ==
  /\ call.op = "update_jacobian_dependencies"
  /\ is_affine
  /\ call.detJ_in = -1
  /\ call.value = -1
  /\ call.J[0][0] = 7

\* ------------------------------------------------------------------------
\* Layout of the packed buffer

\* The triples (q, k, j) the accumulation loops of a call run over.
PackTriples(element, q_degree) ==
  LET sz == pack_sizes(element, q_degree)
  IN (0..(sz.num_points - 1)) \X (0..(sz.bs - 1)) \X (0..(sz.vs - 1))

\* C15: within the block of one entity the buffer is indexed by (quadrature
\* point q, block component k, value component j): two different triples
\* never add to the same slot and every slot of the block gets a triple,
\* for every block size and value size, in both branches.
C15_LayoutIsBijective ==
  PackReturned =>
    LET sz == pack_sizes(V, call.q_degree)
        triples == PackTriples(V, call.q_degree)
        slot(i, t) == coeff_index(call.cstride, i, t[1], t[2], t[3], sz.bs, sz.vs)
    IN \A i \in DOMAIN call.active_entities :
         /\ \A t, u \in triples : t # u => slot(i, t) # slot(i, u)
         /\ call.writes[i] = (i * call.cstride)..((i + 1) * call.cstride - 1)

\* ------------------------------------------------------------------------
\* C16: in get_basis_functions, evaluate_basis_functions and the
\* transformation branch of pack_coefficient_quadrature the values of every
\* (derivative, point) slot are dof-transformed exactly once and only then
\* pushed forward: each physical value is the covariant Piola image of the
\* reference value with the sign of the orientation bit of its dof, and for
\* an element without transformations the pushed-forward reference value.

\* The physical values of one slot: reference values U of the element in a
\* cell with inverse Jacobian K and orientation word word.
OrientedValues(element, K, U, word) ==
  IF element.family = "Lagrange" THEN U
  ELSE [i \in DOMAIN U |-> [r \in 0..(gdim - 1) |->
          (IF Bit(word, i) = 1 THEN -1 ELSE 1)
            * SumTo([k \in 0..(tdim - 1) |-> K[k][r] * U[i][k]], tdim)]]

\* The inverse Jacobian of a cell of the mesh.
CellK(cell) ==
  compute_jacobian_inverse(
    compute_jacobian(cmap_dphi, cell_coordinate_dofs(x_g, cell), ZeroMat(gdim, tdim)))

\* The reference point of a physical point of a cell.
CellX(cell, xp) ==
  pull_back_affine_point(CellK(cell), cell_coordinate_dofs(x_g, cell), xp)

C16_GetBasisFunctions ==
  (call.op = "get_basis_functions" /\ call.index >= 0) =>
    LET element == call.element
        bs == element.block_size
        word == cell_permutation_info[call.index]
    IN \A j \in 0..(call.num_derivatives * tdim), p \in DOMAIN call.x :
         LET U == tabulate_point(element, CellX(call.index, call.x[p]),
                                 call.num_derivatives)[j]
             phys == OrientedValues(element, CellK(call.index), U, word)
         IN \A i \in DOMAIN phys, b \in 0..(bs - 1) :
              \A r \in DOMAIN phys[i] :
                call.ret.basis_array[j][p][i * bs + b][r * bs + b] = phys[i][r]

C16_EvaluateBasisFunctions ==
  (call.op = "evaluate_basis_functions" /\ call.status = "returned") =>
    \A j \in DOMAIN call.basis_values, p \in DOMAIN call.cells :
      call.cells[p] >= 0 =>
        LET cell == call.cells[p]
            U == tabulate_point(V, CellX(cell, call.x[p]), call.num_derivatives)[j]
            word == IF V.needs_dof_transformations THEN cell_permutations[cell] ELSE 0
        IN call.basis_values[j][p] = OrientedValues(V, CellK(cell), U, word)

C16_PackCoefficientQuadrature ==
  (PackReturned /\ V.block_size = 1) =>
    LET sz == pack_sizes(V, call.q_degree)
    IN \A i \in DOMAIN call.active_entities, q \in 0..(sz.num_points - 1),
          j \in 0..(sz.vs - 1) :
         LET info == get_cell_info(call.integral, call.active_entities, i)
             U == tabulate_point(V, quadrature_point(call.integral, info[2], q), 0)[0]
             word == IF V.needs_dof_transformations THEN call.cell_info[info[1]] ELSE 0
             phys == OrientedValues(V, CellK(info[1]), U, word)
             dofs == cell_dofs(V, info[1])
         IN call.coefficients[call.cstride * i + q * sz.vs + j]
              = SumTo([d \in DOMAIN dofs |-> phys[d][j] * u_data[dofs[d]]], Len0(dofs))

C16_Witness ==
  /\ call.op = "get_basis_functions"
  /\ call.index = 1
  /\ call.element = NedelecElement(1)
  /\ Len0(call.x) > 0

C16_WitnessEvaluate ==
  /\ call.op = "evaluate_basis_functions"
  /\ call.status = "returned"
  /\ V.needs_dof_transformations
  /\ \E p \in DOMAIN call.cells : call.cells[p] = 1

C17_PermutationInfoComputedBeforeRead ==
  /\ (call.op = "pack_coefficient_quadrature"
        /\ call.integral \in {"cell", "exterior_facet"}) =>
       IF V.needs_dof_transformations
       THEN /\ ~call.cell_info_stale
            /\ call.status = "returned" => call.cell_info = cell_permutation_info
       ELSE /\ call.cell_info = << >>
            /\ cell_permutations = call.cell_permutations_before
  /\ (call.op = "evaluate_basis_functions" /\ call.status = "returned"
        /\ Len0(call.x) > 0) =>
       IF V.needs_dof_transformations
       THEN cell_permutations = cell_permutation_info
       ELSE cell_permutations = call.cell_permutations_before

\* ------------------------------------------------------------------------
\* C18: entity resolution of pack_coefficient_quadrature.  For a cell
\* integral entity i resolves to (active_entities[i], 0); for a facet
\* integral a boundary facet f resolves to (c, l) with c the single cell
\* adjacent to f, 0 <= l < number of facets of c and facets(c)[l] = f.
C18_EntityResolution ==
  PackReturned =>
    \A i \in DOMAIN call.active_entities :
      LET e == call.active_entities[i]
          c == call.entity_info[i][1]
          l == call.entity_info[i][2]
      IN IF call.integral = "cell"
         THEN c = e /\ l = 0
         ELSE Len0(f_to_c[e]) = 1 =>
                /\ c = f_to_c[e][0]
                /\ l \in DOMAIN c_to_f[c]
                /\ c_to_f[c][l] = e

\* A facet integral over a list with a boundary facet that is not the first
\* facet of its cell has returned.
C18_Witness ==
  /\ PackReturned
  /\ call.integral = "exterior_facet"
  /\ \E i \in DOMAIN call.active_entities :
       /\ Len0(f_to_c[call.active_entities[i]]) = 1
       /\ call.entity_info[i][2] > 0

\* A cell integral over a non-empty list has returned.
C18_WitnessCell ==
  /\ PackReturned
  /\ call.integral = "cell"
  /\ Len0(call.active_entities) > 0

\* ------------------------------------------------------------------------
\* C19: block expansion of get_basis_functions for a non-negative index and
\* block size bs: basis_array[k, p, i*bs + b, j*bs + b] is
\* basis_values[k, p, i, j] for every block b < bs, and
\* basis_array[k, p, i*bs + b, j*bs + b'] is 0 whenever b # b'.
C19_BlockExpansion ==
  (call.op = "get_basis_functions" /\ call.index >= 0) =>
    LET bs == call.element.block_size
        value_size == call.element.value_size \div bs
        space_dimension == call.element.space_dimension \div bs
        blocks == 0..(bs - 1)
    IN \A k \in 0..(call.num_derivatives * tdim), p \in DOMAIN call.x :
         \A i \in 0..(space_dimension - 1), j \in 0..(value_size - 1) :
           \A b \in blocks, c \in blocks :
             call.ret.basis_array[k][p][i * bs + b][j * bs + c]
               = IF b = c THEN call.ret.basis_values[k][p][i][j] ELSE 0

\* A blocked element has been evaluated at a point where one of its basis
\* functions does not vanish.
C19_Witness ==
  /\ call.op = "get_basis_functions"
  /\ call.index >= 0
  /\ call.element.block_size = 2
  /\ \E p \in DOMAIN call.x :
       \E i \in DOMAIN call.ret.basis_values[0][p] :
         \E j \in DOMAIN call.ret.basis_values[0][p][i] :
           call.ret.basis_values[0][p][i][j] # 0

\* ------------------------------------------------------------------------
\* C20: sort_cells on an empty input array reads and writes nothing outside
\* the bounds of its arrays and returns an empty unique list together with
\* offsets = [0].
C20_EmptyInputInBounds ==
  (Len0(cells) = 0 /\ sort_ret.status # "idle") =>
    /\ ~sort_ret.oob
    /\ sort_ret.status = "returned"
    /\ sort_ret.unique = << >>
    /\ sort_ret.offsets = Arr(<<0>>)

\* ------------------------------------------------------------------------
\* C21: update_geometry adds the displacement to each geometry node exactly
\* once, however many cells share the node: for every node n referenced by
\* a cell and every component j < block size, coords[3n + j] is its old
\* value plus u at the dof matching n; the components j >= block size of
\* every node and the nodes referenced by no cell keep their value.

\* The node is a coordinate dof of some cell.
ReferencedNode(n) ==
  \E c \in MeshCells : \E i \in DOMAIN x_dofmap[c] : x_dofmap[c][i] = n

\* The dof of the field that sits where node n sits.
MatchingDof(element, n) ==
  CHOOSE d \in 0..(num_dofs_global(element) - 1) :
    \E c \in MeshCells : \E i \in DOMAIN x_dofmap[c] :
      x_dofmap[c][i] = n /\ cell_dofs(element, c)[i] = d

C21_DisplacementAddedOnce ==
  (call.op = "update_geometry" /\ call.status = "returned" /\ same_dof_layout(V)) =>
    LET bs == V.block_size
    IN /\ Len0(x_g) = Len0(call.x_before)
       /\ \A n \in 0..((Len0(x_g) \div 3) - 1), j \in 0..2 :
            x_g[3 * n + j] =
              IF ReferencedNode(n) /\ j < bs
              THEN call.x_before[3 * n + j] + call.u_data[bs * MatchingDof(V, n) + j]
              ELSE call.x_before[3 * n + j]

\* A field that moves a node shared by both cells has been applied to a
\* mesh that also has a node no cell refers to.
C21_Witness ==
  /\ call.op = "update_geometry"
  /\ call.status = "returned"
  /\ same_dof_layout(V)
  /\ \E n \in 0..((Len0(x_g) \div 3) - 1) : ~ReferencedNode(n)
  /\ \E n \in {1, 2} : call.u_data[V.block_size * n] # 0
  /\ x_g # call.x_before

====
